---- MODULE Spec2Model ----
(***************************************************************************)
(* optipngdir: an incremental batch optimiser.  One run loads the          *)
(* timestamp store, walks the directory, plans the work list, dispatches   *)
(* one thread per work item through a bounded pool, aggregates the         *)
(* outcomes and saves the store.  The module models main() and its nested  *)
(* worker()/check_running(), load_and_clean_timestamps(), optimize_png()   *)
(* and the SIGINT handler of src/optipngdir.py.                            *)
(***************************************************************************)
EXTENDS Integers, Sequences, FiniteSets, TLC

\* ------------------------------------------------------------------ bounds
MaxFiles == 2       \* number of distinct PathKeys (file name stems) under the root
MaxThreads == 2     \* largest value of --threads that is explored

\* ------------------------------------------------------------------- names
\* A file name is <<stem, form>>.  <<i, "c">> is a name that is already in
\* NFC; <<i, "d">> is a different name (other code points) whose NFC
\* normalisation is <<i, "c">>.
Stems == 1..MaxFiles
Names == Stems \X {"c", "d"}

\* unicodedata.normalize('NFC', ...)
NFC(n) == <<n[1], "c">>

\* relpath + separator replacement + NFC: the key of a file in the store.
PathKey_raw(n) == n
PathKey(n) == NFC(n)

\* UNICODE_DETECT_REGEX.search: a spelling that NFC changes is never ASCII;
\* of the NFC names the odd stems are non-ASCII (r\'esum\'e.png) and the even
\* stems are ASCII (a.png).
has_unicode(n) == n[2] = "d" \/ n[1] % 2 = 1

\* md5 of the absolute original path, placed at the mount root: one
\* surrogate path per original path.
generate_temp_filename_dirname(n) == <<"temp", <<1, "d">>>>
generate_temp_filename(n) == <<"temp", n>>
OrigPath(n) == <<"orig", n>>
Paths == {"orig", "temp"} \X Names

\* get_modified_time_long_path returns None on OSError.
None == -1

NoFile == [kind |-> "none", size |-> 0, mtime |-> 0]
Png(s, t) == [kind |-> "png", size |-> s, mtime |-> t]
Foreign == [kind |-> "other", size |-> 5, mtime |-> 2]
\* A PNG file as the run finds it, before any command has worked on it.
InitialFile == Png(2, 1)

VARIABLES
    fs,                      \* the file system: path -> file or NoFile
    os_name,                 \* os.name: "posix" or "nt"
    faults,                  \* the environment: "none", "errors" (system calls may raise,
                             \* the binary may be missing) or "hostile" (the command may
                             \* also grow or touch the file)
    timestamp_file,          \* .optimized_png_timestamps.json
    optimized_timestamps,    \* the in-memory store: key -> timestamp
    existing_png_files_map,  \* ordered dict key -> original path
    removed_count,
    files_to_optimize,       \* the work list (sequence of file names)
    skipped_count,
    exit_requested,          \* the global cancellation flag
    max_worker_threads,      \* args.threads
    mainpc,                  \* position of the main thread
    loopIdx,                 \* index of the dispatch loop into files_to_optimize
    running_workers,
    worker_threads,          \* list of thread ids (= worker_id)
    joinIdx,                 \* index of the list iterator of the join loop
    joinThread,              \* the thread fetched by the join loop
    wk,                      \* per worker thread: its position and locals
    counters,                \* the nonlocal counters of main()
    errlines,                \* the global list of failure records (one per failed item)
    pcAtSigint,              \* history: every worker's position when the flag was set
    mainAtSigint,            \* history: what the main thread was doing when the flag was set
    lateStarts,              \* history: threads started after the flag was set
    savedBy,                 \* history: workers whose store entry was in memory at the save
    savedFlagged,            \* history: whether the flag was set when the store was saved
    storeAtStart             \* history: the store file when the run began

vars == <<fs, os_name, faults, timestamp_file, optimized_timestamps,
          existing_png_files_map, removed_count, files_to_optimize, skipped_count,
          exit_requested, max_worker_threads, mainpc, loopIdx, running_workers,
          worker_threads, joinIdx, joinThread, wk, counters, errlines, pcAtSigint,
          mainAtSigint, lateStarts, savedBy, savedFlagged, storeAtStart>>

planVars == <<optimized_timestamps, existing_png_files_map, removed_count,
              files_to_optimize, skipped_count>>
envVars == <<os_name, faults, max_worker_threads, storeAtStart>>
mainVars == <<mainpc, loopIdx, running_workers, worker_threads, joinIdx, joinThread>>
histVars == <<pcAtSigint, mainAtSigint, lateStarts, savedBy, savedFlagged>>

Workers == 1..MaxFiles
Terminated == {"skipped", "interrupted", "done"}

\* ------------------------------------------------------------- file system
\* os.path.getsize, 0 on FileNotFoundError
get_file_size(f, p) == IF f[p].kind = "none" THEN 0 ELSE f[p].size
\* os.path.getmtime, None on OSError
get_modified_time_long_path(f, p) == IF f[p].kind = "none" THEN None ELSE f[p].mtime

\* os.rename: fails when the source is missing; on Windows it also fails
\* when the destination exists, on POSIX it replaces the destination.
RenameOk(f, src, dst) ==
    /\ f[src].kind # "none"
    /\ os_name = "nt" => f[dst].kind = "none"
Rename(f, src, dst) == [f EXCEPT ![dst] = f[src], ![src] = NoFile]

\* What the environment may do: whether a system call can raise.
MayFail == IF faults # "none" THEN {FALSE, TRUE} ELSE {FALSE}

\* ------------------------------------------------------------------- store
EmptyDict == [k \in {} |-> 0]
EmptyMap == [keys |-> <<>>, val |-> EmptyDict]

\* dict[k] = v on a plain dict
DictSet(d, k, v) == [x \in DOMAIN d \cup {k} |-> IF x = k THEN v ELSE d[x]]

\* dict[k] = v on a dict whose iteration order matters: a new key goes last.
MapSet(m, k, v) ==
    [keys |-> IF k \in DOMAIN m.val THEN m.keys ELSE Append(m.keys, k),
     val |-> DictSet(m.val, k, v)]

\* The order in which the directory walk and json.load yield names.
WalkOrder == [i \in 1..(2 * MaxFiles) |-> <<(i + 1) \div 2, IF i % 2 = 1 THEN "c" ELSE "d">>]

\* json.load + the dict comprehension that normalises every key: the entry
\* read last wins among the raw keys with one normal form.
RECURSIVE NormaliseFrom(_, _, _)
NormaliseFrom(i, data, acc) ==
    IF i > Len(WalkOrder) THEN acc
    ELSE LET n == WalkOrder[i] IN
         NormaliseFrom(i + 1, data,
                       IF n \in DOMAIN data THEN DictSet(acc, NFC(n), data[n]) ELSE acc)

LoadStore(file) ==
    IF file.kind = "json" THEN NormaliseFrom(1, file.data, EmptyDict) ELSE EmptyDict

\* The walk of load_and_clean_timestamps: key -> original path, the file
\* walked last wins among the files with one key.
RECURSIVE WalkFrom(_, _, _)
WalkFrom(i, f, acc) ==
    IF i > Len(WalkOrder) THEN acc
    ELSE LET n == WalkOrder[i] IN
         WalkFrom(i + 1, f,
                  IF f[OrigPath(n)].kind # "none" THEN MapSet(acc, PathKey(n), n) ELSE acc)

Walk(f) == WalkFrom(1, f, EmptyMap)

\* timestamps_to_keep
Reconcile_keepall(loaded, map) == loaded
Reconcile(loaded, map) == [k \in DOMAIN loaded \cap DOMAIN map.val |-> loaded[k]]

\* The planning loop of main(): [todo |-> work list, skipped |-> count].
StoredUnchanged_keyonly(store, k, current) == k \in DOMAIN store
StoredUnchanged(store, k, current) == k \in DOMAIN store /\ store[k] = current

RECURSIVE PlanFrom(_, _, _, _, _)
PlanFrom(i, map, store, f, acc) ==
    IF i > Len(map.keys) THEN acc
    ELSE LET k == map.keys[i]
             original_path == map.val[k]
             current_timestamp == get_modified_time_long_path(f, OrigPath(original_path))
         IN  PlanFrom(i + 1, map, store, f,
                 IF StoredUnchanged(store, k, current_timestamp)
                 THEN [acc EXCEPT !.skipped = @ + 1]
                 ELSE [acc EXCEPT !.todo = Append(@, original_path)])

Planner(map, store, f) == PlanFrom(1, map, store, f, [todo |-> <<>>, skipped |-> 0])

\* ------------------------------------------------------------ initial state
\* A thread that has not been started.  `invoked` tells whether Popen created
\* the process, `output` which text optimize_png returned, `warning` the
\* paths that it named on progress_bar.write.
IdleWorker == [pc |-> "idle", original_size |-> 0, renamed |-> FALSE, invoked |-> FALSE,
               restore_failed |-> FALSE, returncode |-> 0, success |-> FALSE,
               output |-> "", warning |-> {}, savings |-> 0, tmp |-> 0]

MissingFile == [kind |-> "missing", data |-> EmptyDict]
JsonFile(d) == [kind |-> "json", data |-> d]
\* A file that open(..., 'w') truncated and json.dump did not finish, or
\* any other content that json.load rejects.
CorruptFile == [kind |-> "corrupt", data |-> EmptyDict]
\* Valid JSON that is not an object: a list, a number, a string, null.
NonObjectFile == [kind |-> "nonobject", data |-> EmptyDict]

\* `with open(timestamp_file, 'w') as f: json.dump(d, f)` under
\* `except IOError`: the file written in place, left alone when open
\* raises, or left truncated when the write raises part-way.
WriteOutcomes == IF faults # "none" THEN {"ok", "open_raises", "write_raises"} ELSE {"ok"}
Written_file(old, d, outcome) ==
    CASE outcome = "ok" -> JsonFile(d)
      [] outcome = "open_raises" -> old
      [] outcome = "write_raises" -> CorruptFile

\* The state when main() is entered: `disk` are the PNG files under the
\* root, `file` the store file, `n` the pool size.
InitRun(disk, file, n, flt, os) ==
    /\ fs = [p \in Paths |-> IF p[1] = "orig" /\ p[2] \in disk THEN InitialFile ELSE NoFile]
    /\ os_name = os
    /\ faults = flt
    /\ timestamp_file = file
    /\ storeAtStart = file
    /\ optimized_timestamps = EmptyDict
    /\ existing_png_files_map = EmptyMap
    /\ removed_count = 0
    /\ files_to_optimize = <<>>
    /\ skipped_count = 0
    /\ exit_requested = FALSE
    /\ max_worker_threads = n
    /\ mainpc = "load"
    /\ loopIdx = 1
    /\ running_workers = 0
    /\ worker_threads = <<>>
    /\ joinIdx = 1
    /\ joinThread = 0
    /\ wk = [w \in Workers |-> IdleWorker]
    /\ counters = [processed_count |-> 0, successful_optimizations |-> 0,
                   total_savings_bytes |-> 0, error_count |-> 0]
    /\ errlines = <<>>
    /\ pcAtSigint = [w \in Workers |-> "unset"]
    /\ mainAtSigint = "unset"
    /\ lateStarts = 0
    /\ savedBy = {}
    /\ savedFlagged = FALSE

NfcNames == {n \in Names : n[2] = "c"}
Dicts(keys, values) == UNION {[s -> values] : s \in SUBSET keys}

\* ------------------------------------------------------------ main thread
\* load_and_clean_timestamps, called at line 355.
\* `data.items()` at line 151 on what json.load returned: a value that is
\* not a dict has no items(), and the AttributeError is caught by neither
\* `except` of lines 154-158; it ends main() with a traceback.
LoadRaises(file) == file.kind = "nonobject"

LoadAndClean ==
    /\ mainpc = "load"
    /\ IF LoadRaises(timestamp_file)
       THEN /\ mainpc' = "crash"
            /\ UNCHANGED <<timestamp_file, optimized_timestamps, existing_png_files_map,
                           removed_count>>
       ELSE
       LET loaded == LoadStore(timestamp_file)
           map == Walk(fs)
           timestamps_to_keep == Reconcile(loaded, map)
           removed == Cardinality(DOMAIN loaded \ DOMAIN timestamps_to_keep)
       IN  /\ optimized_timestamps' = timestamps_to_keep
           /\ existing_png_files_map' = map
           /\ removed_count' = removed
           /\ \E outcome \in WriteOutcomes :
                 timestamp_file' = IF removed > 0
                                   THEN Written_file(timestamp_file, timestamps_to_keep, outcome)
                                   ELSE timestamp_file
           /\ mainpc' = "plan"
    /\ UNCHANGED <<fs, envVars, files_to_optimize, skipped_count, exit_requested,
                   loopIdx, running_workers, worker_threads, joinIdx, joinThread,
                   wk, counters, errlines, histVars>>

\* The planning loop (lines 362-373); an empty work list ends the run.
PlanFiles ==
    /\ mainpc = "plan"
    /\ LET plan == Planner(existing_png_files_map, optimized_timestamps, fs)
       IN  /\ files_to_optimize' = plan.todo
           /\ skipped_count' = plan.skipped
           /\ mainpc' = IF plan.todo = <<>> THEN "exit" ELSE "loop"
    /\ UNCHANGED <<fs, envVars, timestamp_file, optimized_timestamps,
                   existing_png_files_map, removed_count, exit_requested, loopIdx,
                   running_workers, worker_threads, joinIdx, joinThread, wk, counters, errlines,
                   histVars>>

AllTerminated == \A w \in Workers : wk[w].pc \in Terminated \cup {"idle"}
ProcessExited == mainpc = "exit" /\ AllTerminated

\* `if exit_requested: break` at the top of the dispatch loop.
DispatchBreak_never == FALSE
DispatchBreak == exit_requested

\* `while running_workers >= max_worker_threads`
PoolSaturated_offbyone == running_workers > max_worker_threads
PoolSaturated == running_workers >= max_worker_threads

\* What the history keeps of a worker's position: whether its external
\* command was executing, or its outcome had passed the test of line 435.
Aggregating == {"ld_succ", "st_succ", "ld_sav", "st_sav", "stamp", "ld_err", "st_err",
                "ld_proc", "st_proc", "done"}
Phase(pc) == IF pc = "running" THEN "running"
             ELSE IF pc \in Aggregating THEN "aggregated" ELSE "other"

\* signal_handler; installed at line 360, it runs whenever SIGINT arrives
\* while the process lives.
Sigint ==
    /\ mainpc \notin {"load", "crash"}
    /\ ~ProcessExited
    /\ ~exit_requested
    /\ exit_requested' = TRUE
    /\ pcAtSigint' = [w \in Workers |-> Phase(wk[w].pc)]
    /\ mainAtSigint' = IF mainpc = "wait" /\ PoolSaturated THEN "saturated" ELSE mainpc
    /\ UNCHANGED <<fs, envVars, timestamp_file, planVars, mainVars, wk, counters, errlines,
                   lateStarts, savedBy, savedFlagged>>

\* check_running: the threads that are no longer alive leave worker_threads.
FinishedThreads == {t \in Workers : \E i \in 1..Len(worker_threads) :
                                       worker_threads[i] = t /\ wk[t].pc \in Terminated}
IsLive(t) == t \notin FinishedThreads
check_running_nodecrement ==
    /\ worker_threads' = SelectSeq(worker_threads, IsLive)
    /\ running_workers' = running_workers
check_running ==
    /\ worker_threads' = SelectSeq(worker_threads, IsLive)
    /\ running_workers' = running_workers - Cardinality(FinishedThreads)

\* `for filename in files_to_optimize: if exit_requested: break`
DispatchCheck ==
    /\ mainpc = "loop"
    /\ IF loopIdx > Len(files_to_optimize) \/ DispatchBreak
       THEN mainpc' = "join" /\ joinIdx' = 1
       ELSE mainpc' = "wait" /\ joinIdx' = joinIdx
    /\ UNCHANGED <<fs, envVars, timestamp_file, planVars, exit_requested, loopIdx,
                   running_workers, worker_threads, joinThread, wk, counters, errlines, histVars>>

\* One turn of the polling loop of lines 478-483 while the pool is full.
DispatchWait ==
    /\ mainpc = "wait"
    /\ PoolSaturated
    /\ check_running
    /\ UNCHANGED <<fs, envVars, timestamp_file, planVars, exit_requested, mainpc,
                   loopIdx, joinIdx, joinThread, wk, counters, errlines, histVars>>

\* `for filename in files_to_optimize`: the iteration moves on to the next
\* item of the work list.
NextItem_same(i) == i
NextItem(i) == i + 1

\* Lines 485-493: the thread of the next work item is created and started.
DispatchStart ==
    /\ mainpc = "wait"
    /\ ~PoolSaturated
    /\ worker_threads' = Append(worker_threads, loopIdx)
    /\ wk' = [wk EXCEPT ![loopIdx].pc = "start"]
    /\ running_workers' = running_workers + 1
    /\ loopIdx' = NextItem(loopIdx)
    /\ lateStarts' = IF exit_requested THEN lateStarts + 1 ELSE lateStarts
    /\ mainpc' = "loop"
    /\ UNCHANGED <<fs, envVars, timestamp_file, planVars, exit_requested, joinIdx,
                   joinThread, counters, errlines, pcAtSigint, mainAtSigint, savedBy, savedFlagged>>

\* `for thread in worker_threads:` fetches the element at the iterator's
\* index, then the body calls check_running, which removes elements from
\* the list that is being iterated.
JoinNext ==
    /\ mainpc = "join"
    /\ IF joinIdx > Len(worker_threads)
       THEN /\ mainpc' = "save"
            /\ UNCHANGED <<joinIdx, joinThread, worker_threads, running_workers>>
       ELSE /\ joinThread' = worker_threads[joinIdx]
            /\ joinIdx' = joinIdx + 1
            /\ check_running
            /\ mainpc' = "joining"
    /\ UNCHANGED <<fs, envVars, timestamp_file, planVars, exit_requested, loopIdx,
                   wk, counters, errlines, histVars>>

\* thread.join() returns once the fetched thread has terminated.
JoinWait ==
    /\ mainpc = "joining"
    /\ wk[joinThread].pc \in Terminated
    /\ mainpc' = "join"
    /\ UNCHANGED <<fs, envVars, timestamp_file, planVars, exit_requested, loopIdx,
                   running_workers, worker_threads, joinIdx, joinThread, wk, counters, errlines,
                   histVars>>

\* The worker has executed add_optimized_timestamp.
Written(w) == wk[w].success /\ wk[w].pc \in {"ld_proc", "st_proc", "done"}

\* save_optimized_timestamps at line 501.
Save ==
    /\ mainpc = "save"
    /\ \E outcome \in WriteOutcomes :
         timestamp_file' = Written_file(timestamp_file, optimized_timestamps, outcome)
    /\ savedBy' = {w \in Workers : Written(w)}
    /\ savedFlagged' = exit_requested
    /\ mainpc' = "exit"
    /\ UNCHANGED <<fs, envVars, planVars, exit_requested, loopIdx, running_workers,
                   worker_threads, joinIdx, joinThread, wk, counters, errlines, pcAtSigint,
                   mainAtSigint, lateStarts>>

\* ---------------------------------------------------------- worker threads
otherVars == <<envVars, timestamp_file, existing_png_files_map, removed_count,
               files_to_optimize, skipped_count, exit_requested, mainVars, histVars>>

filename(w) == files_to_optimize[w]
\* filename_to_process
Target(w) == IF wk[w].renamed THEN generate_temp_filename(filename(w))
             ELSE OrigPath(filename(w))

\* worker(), lines 426-428: a thread that starts after the flag was set returns.
ExitSeen_never == FALSE
ExitSeen == exit_requested
W_Begin(w) ==
    /\ wk[w].pc = "start"
    /\ wk' = [wk EXCEPT ![w].pc = IF ExitSeen THEN "skipped" ELSE "rename"]
    /\ UNCHANGED <<fs, otherVars, optimized_timestamps, counters, errlines>>

\* optimize_png, lines 229-248: the size is read and an unsafe name is
\* renamed to its surrogate; a failed rename returns a failure.
\* `except OSError as e: return [], False, ..., 0` (line 248): the position
\* after a failed rename is the return to worker().
RenameFailed_continues == "popen"
RenameFailed == "gate"
W_Rename(w) ==
    /\ wk[w].pc = "rename"
    /\ LET orig == OrigPath(filename(w))
           temp == generate_temp_filename(filename(w))
           size == get_file_size(fs, orig)
       IN  IF has_unicode(filename(w))
           THEN \E err \in MayFail :
                  IF ~err /\ RenameOk(fs, orig, temp)
                  THEN /\ fs' = Rename(fs, orig, temp)
                       /\ wk' = [wk EXCEPT ![w].pc = "popen", ![w].renamed = TRUE,
                                           ![w].original_size = size]
                  ELSE /\ fs' = fs
                       /\ wk' = [wk EXCEPT ![w].pc = RenameFailed, ![w].success = FALSE,
                                           ![w].output = "Error renaming file",
                                           ![w].savings = 0, ![w].original_size = size]
           ELSE /\ fs' = fs
                /\ wk' = [wk EXCEPT ![w].pc = "popen", ![w].original_size = size]
    /\ UNCHANGED <<otherVars, optimized_timestamps, counters, errlines>>

\* subprocess.Popen, line 261: a missing binary raises FileNotFoundError,
\* and the handler at line 288 returns without the restoring rename.
W_Popen(w) ==
    /\ wk[w].pc = "popen"
    /\ \E missing \in MayFail :
         wk' = IF missing
               THEN [wk EXCEPT ![w].pc = "gate", ![w].success = FALSE, ![w].savings = 0,
                               ![w].output = "Error: optipng command not found."]
               ELSE [wk EXCEPT ![w].pc = "running", ![w].invoked = TRUE]
    /\ UNCHANGED <<fs, otherVars, optimized_timestamps, counters, errlines>>

\* process.communicate() returns: the external command has rewritten the
\* file (exit 0) or left it alone (non-zero exit).
ToolSizes == IF faults = "hostile" THEN {1, 3} ELSE {1}
MayTouch == IF faults = "hostile" THEN {FALSE, TRUE} ELSE {FALSE}
W_Communicate(w) ==
    /\ wk[w].pc = "running"
    /\ \E rc \in {0, 1}, newsize \in ToolSizes, touch \in MayTouch :
         /\ fs' = IF rc = 0 /\ fs[Target(w)].kind # "none"
                  THEN [fs EXCEPT ![Target(w)].size = newsize,
                                  ![Target(w)].mtime = IF touch THEN 2 ELSE @]
                  ELSE fs
         /\ wk' = [wk EXCEPT ![w].pc = "restore", ![w].returncode = rc]
    /\ UNCHANGED <<otherVars, optimized_timestamps, counters, errlines>>

\* optimize_png, lines 272-286: the surrogate is renamed back when it still
\* exists; then the result is computed from the exit status.
\* `original_filename = temp_filename` in the except branch of line 276:
\* the path whose size is read at line 281.
ResultPath_original(failed, orig, temp) == orig
ResultPath(failed, orig, temp) == IF failed THEN temp ELSE orig
\* `if renamed and os.path.exists(temp_filename) and ...` (line 272): no
\* test of exit_requested stands before the restoring rename.
RestoreAttempted_unlesscancelled(w, temp) ==
    ~exit_requested /\ wk[w].renamed /\ fs[temp].kind # "none"
RestoreAttempted(w, temp) == wk[w].renamed /\ fs[temp].kind # "none"
W_Restore(w) ==
    /\ wk[w].pc = "restore"
    /\ LET orig == OrigPath(filename(w))
           temp == generate_temp_filename(filename(w))
           attempt == RestoreAttempted(w, temp)
       IN  \E err \in MayFail :
             LET moved == attempt /\ ~err /\ RenameOk(fs, temp, orig)
                 failed == attempt /\ ~moved
                 newfs == IF moved THEN Rename(fs, temp, orig) ELSE fs
                 original_filename == ResultPath(failed, orig, temp)
                 optimized_size == get_file_size(newfs, original_filename)
             IN  /\ (err => attempt)
                 /\ fs' = newfs
                 /\ wk' = [wk EXCEPT
                        ![w].pc = "gate",
                        ![w].restore_failed = failed,
                        ![w].warning = IF failed THEN {temp} ELSE {},
                        ![w].success = (wk[w].returncode = 0),
                        ![w].output = IF wk[w].returncode = 0 THEN "stdout" ELSE "stderr",
                        ![w].savings = IF wk[w].returncode = 0
                                       THEN wk[w].original_size - optimized_size ELSE 0]
    /\ UNCHANGED <<otherVars, optimized_timestamps, counters, errlines>>

\* worker(), line 435: `if not exit_requested:` decides whether the
\* outcome is aggregated at all.
W_Gate(w) ==
    /\ wk[w].pc = "gate"
    /\ wk' = [wk EXCEPT ![w].pc = IF exit_requested THEN "interrupted"
                                  ELSE IF wk[w].success THEN "ld_succ" ELSE "ld_err"]
    /\ UNCHANGED <<fs, otherVars, optimized_timestamps, counters, errlines>>

\* The counter each position of the aggregation reads or writes, the
\* amount added, and the position that follows.
Field(pc) ==
    CASE pc \in {"ld_succ", "st_succ"} -> "successful_optimizations"
      [] pc \in {"ld_sav", "st_sav"} -> "total_savings_bytes"
      [] pc \in {"ld_err", "st_err"} -> "error_count"
      [] pc \in {"ld_proc", "st_proc"} -> "processed_count"
AfterLoad(pc) ==
    CASE pc = "ld_succ" -> "st_succ" [] pc = "ld_sav" -> "st_sav"
      [] pc = "ld_err" -> "st_err" [] pc = "ld_proc" -> "st_proc"
AfterStore(pc) ==
    CASE pc = "st_succ" -> "ld_sav" [] pc = "st_sav" -> "stamp"
      [] pc = "st_err" -> "ld_proc" [] pc = "st_proc" -> "done"

\* errlines.append(to_log), line 444: the record names the file, the
\* command and the text that optimize_png returned.
RecordFailure_dropped(w) == errlines
RecordFailure(w) == Append(errlines, [item |-> w, output |-> wk[w].output])

\* `counter += x` reads the nonlocal counter (for error_count, after the
\* append of the line before) ...
W_Load(w) ==
    /\ wk[w].pc \in {"ld_succ", "ld_sav", "ld_err", "ld_proc"}
    /\ wk' = [wk EXCEPT ![w].tmp = counters[Field(wk[w].pc)],
                        ![w].pc = AfterLoad(wk[w].pc)]
    /\ errlines' = IF wk[w].pc = "ld_err" THEN RecordFailure(w) ELSE errlines
    /\ UNCHANGED <<fs, otherVars, optimized_timestamps, counters>>

\* ... and writes the sum back; no lock is held in between (lines 437-446).
W_Store(w) ==
    /\ wk[w].pc \in {"st_succ", "st_sav", "st_err", "st_proc"}
    /\ counters' = [counters EXCEPT ![Field(wk[w].pc)] =
                       wk[w].tmp + (IF wk[w].pc = "st_sav" THEN wk[w].savings ELSE 1)]
    /\ wk' = [wk EXCEPT ![w].tmp = 0, ![w].pc = AfterStore(wk[w].pc)]
    /\ UNCHANGED <<fs, otherVars, optimized_timestamps, errlines>>

\* add_optimized_timestamp(..., get_modified_time_long_path(filename)), line 439.
add_optimized_timestamp(store, name, timestamp) == DictSet(store, PathKey(name), timestamp)

\* The timestamp argument of line 439, evaluated when the call is made.
StampTime_before(w) == InitialFile.mtime
StampTime(w) == get_modified_time_long_path(fs, OrigPath(filename(w)))

W_Stamp(w) ==
    /\ wk[w].pc = "stamp"
    /\ optimized_timestamps' =
           add_optimized_timestamp(optimized_timestamps, filename(w), StampTime(w))
    /\ wk' = [wk EXCEPT ![w].pc = "ld_proc"]
    /\ UNCHANGED <<fs, otherVars, counters, errlines>>

\* Another process creates a file at the original path while the external
\* command works on the surrogate.
Occupy ==
    \E w \in Workers :
        /\ wk[w].pc = "running"
        /\ wk[w].renamed
        /\ fs[OrigPath(filename(w))].kind = "none"
        /\ fs' = [fs EXCEPT ![OrigPath(filename(w))] = Foreign]
        /\ UNCHANGED <<otherVars, optimized_timestamps, counters, errlines, wk>>

\* ---------------------------------------------------------- specifications
MainStep == \/ LoadAndClean \/ PlanFiles \/ DispatchCheck \/ DispatchStart
            \/ JoinNext \/ JoinWait \/ Save \/ Sigint
WorkerStep == \E w \in Workers :
                 \/ W_Begin(w) \/ W_Rename(w) \/ W_Popen(w) \/ W_Communicate(w)
                 \/ W_Restore(w) \/ W_Gate(w) \/ W_Load(w) \/ W_Store(w) \/ W_Stamp(w)

\* A run over MaxFiles files with every pool size, in a well-behaved
\* environment: the only failures are non-zero exits of the command.
Init ==
    \E n \in 1..MaxThreads, d \in Dicts(NfcNames, {1}) :
        InitRun(NfcNames, JsonFile(d), n, "none", "posix")
Next == MainStep \/ DispatchWait \/ WorkerStep
Spec == Init /\ [][Next]_vars

\* The same run under fair scheduling: the main thread and every started
\* worker thread keep taking their steps, and every external command
\* returns; SIGINT may or may not arrive.
MainThread == \/ LoadAndClean \/ PlanFiles \/ DispatchCheck \/ DispatchWait
              \/ DispatchStart \/ JoinNext \/ JoinWait \/ Save
WorkerThread(w) == \/ W_Begin(w) \/ W_Rename(w) \/ W_Popen(w) \/ W_Communicate(w)
                   \/ W_Restore(w) \/ W_Gate(w) \/ W_Load(w) \/ W_Store(w) \/ W_Stamp(w)
Fairness == WF_vars(MainThread) /\ \A w \in Workers : WF_vars(WorkerThread(w))
SpecFair == Init /\ [][Next]_vars /\ Fairness

\* A run over a single file in a hostile environment: renames may fail,
\* the binary may be missing, the tool may grow or touch the file, another
\* process may create a file at the original path.
\* The store files a run over the one file `n` may find: none, or one left
\* by an earlier run, with current or stale times under normalised or raw keys.
AdapterStores(n) ==
    {MissingFile} \cup {JsonFile(d) : d \in Dicts({x \in Names : x[1] = n[1]}, {0, 1})}
InitAdapter ==
    \E n \in Names, os \in {"posix", "nt"} :
        \E file \in AdapterStores(n) : InitRun({n}, file, 1, "hostile", os)
NextAdapter == MainStep \/ WorkerStep \/ Occupy
SpecAdapter == InitAdapter /\ [][NextAdapter]_vars

\* Loading, reconciling and planning over every store file and every set of
\* files on disk.
PlanStores == {MissingFile, CorruptFile, NonObjectFile}
                 \cup {JsonFile(d) : d \in Dicts(Names, {0, 1})}
InitPlan ==
    \E disk \in SUBSET Names :
        \E file \in PlanStores : InitRun(disk, file, 1, "none", "posix")
NextPlan == LoadAndClean \/ PlanFiles
SpecPlan == InitPlan /\ [][NextPlan]_vars

\* A run over MaxFiles files, some with unsafe names, that no SIGINT
\* interrupts, in an environment where system calls may raise: any item
\* may fail in any of the ways optimize_png reports.
InitIsolation ==
    \E n \in 1..MaxThreads : InitRun(NfcNames, MissingFile, n, "errors", "posix")
NextIsolation == \/ LoadAndClean \/ PlanFiles \/ DispatchCheck \/ DispatchWait
                 \/ DispatchStart \/ JoinNext \/ JoinWait \/ Save \/ WorkerStep
SpecIsolation == InitIsolation /\ [][NextIsolation]_vars

\* A run over MaxFiles files that all have unsafe names (one decomposed
\* spelling per stem), in a well-behaved environment, with every pool size
\* and SIGINT at any point.
UnsafeNames == {n \in Names : n[2] = "d"}
InitUnsafe ==
    \E n \in 1..MaxThreads : InitRun(UnsafeNames, MissingFile, n, "none", "posix")
SpecUnsafe == InitUnsafe /\ [][Next]_vars

\* ------------------------------------------------------------------ claims
Executing == {w \in Workers : wk[w].pc = "running"}

\* C1: in every reachable state the number of worker threads that are
\* executing an external command (between Popen and the return of
\* communicate) is at most the pool size.
C1_BoundedConcurrency == Cardinality(Executing) <= max_worker_threads
\* The pool is full: two commands execute at once under a pool of two.
C1_Witness == max_worker_threads = 2 /\ Cardinality(Executing) = 2

\* C2: every work item whose external command was executing when the flag
\* was set is aggregated into the counters when its worker finishes: the
\* worker ends at "done", the end of the aggregation of lines 436-446, not
\* at "interrupted", the branch of line 471 that changes no counter.
C2_InFlightAggregated ==
    \A w \in Workers :
        (pcAtSigint[w] = "running" /\ wk[w].pc \in Terminated) => wk[w].pc = "done"

\* The successful items whose outcome had passed the test of line 435
\* when the flag was set.
GatedBeforeSigint == {w \in Workers : pcAtSigint[w] = "aggregated" /\ wk[w].success}

\* C3: when the flag is set during a run, the store saved at the end of
\* the run holds an entry written by this run for exactly the items that
\* succeeded and were aggregated before the flag was set.
C3_StoreAfterCancel ==
    (mainpc = "exit" /\ savedFlagged) => savedBy = GatedBeforeSigint

\* C4 (as claimed): no worker thread is started once the flag is set.
C4_NoStartAfterFlag == lateStarts = 0
\* C4 (amended): once the flag is set the dispatch loop starts at most one
\* more worker thread, the one of the item whose test at the top of the
\* loop had passed before the flag was set (the flag came while the loop
\* was past that test, waiting for a slot or about to start the thread).
C4_AtMostOneLateStart ==
    /\ lateStarts <= 1
    /\ lateStarts = 1 => mainAtSigint \in {"wait", "saturated"}
\* The flag came while the loop waited on a full pool, and the thread of
\* the waiting item was started afterwards all the same.
C4_Witness ==
    /\ lateStarts = 1
    /\ mainAtSigint = "saturated"
    /\ \E w \in Workers : wk[w].pc = "skipped"

RECURSIVE SumSavings(_)
SumSavings(S) == IF S = {} THEN 0
                 ELSE LET w == CHOOSE x \in S : TRUE
                      IN  wk[w].savings + SumSavings(S \ {w})
Succeeded == {w \in Workers : wk[w].pc = "done" /\ wk[w].success}
Failed == {w \in Workers : wk[w].pc = "done" /\ ~wk[w].success}
Dispatched == {w \in Workers : wk[w].pc # "idle"}

\* C5: in a run without cancellation, once every worker has finished, the
\* counters equal the number of succeeded items, of failed items, their
\* sum, and the sum of the savings of the items.
C5_NoLostUpdates ==
    (~exit_requested /\ mainpc \in {"join", "joining", "save", "exit"} /\ AllTerminated)
    => /\ counters.successful_optimizations = Cardinality(Succeeded)
       /\ counters.error_count = Cardinality(Failed)
       /\ counters.processed_count = Cardinality(Succeeded) + Cardinality(Failed)
       /\ counters.total_savings_bytes = SumSavings(Succeeded)

\* optimize_png has returned to worker().
Returned(w) == wk[w].pc \in {"gate", "interrupted"} \cup Aggregating

\* C6: once optimize_png has returned for an item whose rename to the
\* surrogate succeeded, the file is at its original path and not at the
\* surrogate path, whatever the external command did.  Stated for the
\* returns that reported no failure of the restoring rename.
C6_RoundTrip ==
    \A w \in Workers :
        (Returned(w) /\ wk[w].renamed /\ ~wk[w].restore_failed)
        => /\ fs[OrigPath(filename(w))].kind = "png"
           /\ fs[generate_temp_filename(filename(w))].kind = "none"

\* C7: a file that occupies an original path is never replaced: the
\* restoring rename leaves the surrogate where it is.
C7_RestoreNeverOverwrites ==
    [][\A n \in Names : fs[OrigPath(n)].kind = "other" => fs'[OrigPath(n)].kind = "other"]_vars

\* The work list a run would plan from the store file and the files as
\* they are now.
SecondRunPlan ==
    LET map == Walk(fs)
    IN  Planner(map, Reconcile(LoadStore(timestamp_file), map), fs)

\* C8: after a run that completed normally (the process has exited, it
\* was not cancelled and no item failed), a second run over the unchanged
\* files plans an empty work list.
C8_Idempotent ==
    (ProcessExited /\ ~exit_requested /\ \A w \in Dispatched : wk[w].success)
    => SecondRunPlan.todo = <<>>

\* The files the planner is given: the values of existing_png_files_map.
Discovered == {existing_png_files_map.val[k] : k \in DOMAIN existing_png_files_map.val}
InWorkList(n) == \E i \in 1..Len(files_to_optimize) : files_to_optimize[i] = n
NeedsWork(n) ==
    \/ PathKey(n) \notin DOMAIN optimized_timestamps
    \/ optimized_timestamps[PathKey(n)] # get_modified_time_long_path(fs, OrigPath(n))

\* C9: once the work list is planned, a discovered file is in it (once)
\* if and only if its key is absent from the reconciled store or its
\* modification time differs from the stored one; every other discovered
\* file is counted as skipped.
C9_ChangeDetection ==
    mainpc \notin {"load", "plan"} =>
        /\ \A n \in Discovered : InWorkList(n) <=> NeedsWork(n)
        /\ Len(files_to_optimize) = Cardinality({n \in Discovered : NeedsWork(n)})
        /\ skipped_count = Cardinality({n \in Discovered : ~NeedsWork(n)})
\* One file is planned because its stored time is stale while another,
\* whose stored time is current, is skipped.
C9_Witness ==
    /\ mainpc \notin {"load", "plan"}
    /\ skipped_count = 1
    /\ \E n \in Discovered :
         /\ InWorkList(n)
         /\ PathKey(n) \in DOMAIN optimized_timestamps
         /\ optimized_timestamps[PathKey(n)] # fs[OrigPath(n)].mtime

\* The keys of the PNG files that are on disk.
LiveKeys == {PathKey(n) : n \in {x \in Names : fs[OrigPath(x)].kind # "none"}}
LoadedAtStart == LoadStore(storeAtStart)

\* C10: load_and_clean_timestamps returns exactly the loaded entries whose
\* key is a discovered key and counts the others; it rewrites the store
\* file with the pruned mapping when an entry was dropped, and leaves the
\* file as it was when none was; no worker has been started by then.
C10_CachePruning ==
    mainpc = "plan" =>
        /\ DOMAIN optimized_timestamps = DOMAIN LoadedAtStart \cap LiveKeys
        /\ \A k \in DOMAIN optimized_timestamps : optimized_timestamps[k] = LoadedAtStart[k]
        /\ removed_count = Cardinality(DOMAIN LoadedAtStart \ LiveKeys)
        /\ removed_count > 0 => timestamp_file = JsonFile(optimized_timestamps)
        /\ removed_count = 0 => timestamp_file = storeAtStart
        /\ \A w \in Workers : wk[w].pc = "idle"
\* An entry of a file that is gone was dropped, another was kept, and the
\* store file was rewritten.
C10_Witness ==
    /\ mainpc = "plan"
    /\ removed_count > 0
    /\ optimized_timestamps # EmptyDict
    /\ timestamp_file # storeAtStart

\* The store as load_and_clean_timestamps returned it to this run.
ReconciledAtStart == Reconcile(LoadedAtStart, existing_png_files_map)
SameEntry(a, b, k) ==
    /\ (k \in DOMAIN a) <=> (k \in DOMAIN b)
    /\ k \in DOMAIN a => a[k] = b[k]
InNextWorkList(n) ==
    \E i \in 1..Len(SecondRunPlan.todo) : SecondRunPlan.todo[i] = n

\* C11 (frame): while the run dispatches, an entry of the in-memory store
\* changes only in the step in which a worker whose external command
\* returned success executes add_optimized_timestamp for its own key.
C11_StoreFrame ==
    [][\A k \in Names :
          (mainpc # "load" /\ ~SameEntry(optimized_timestamps, optimized_timestamps', k))
          => \E w \in Workers :
                /\ wk[w].pc = "stamp" /\ wk'[w].pc = "ld_proc"
                /\ wk[w].success /\ wk[w].returncode = 0
                /\ k = PathKey(filename(w))]_vars

\* C11: once the run is over, the store entry of every failed item is the
\* one the run loaded, and the failed file is in the work list that the
\* next run plans.
C11_FailedIsRetried ==
    ProcessExited =>
        \A w \in Failed :
            /\ SameEntry(optimized_timestamps, ReconciledAtStart, PathKey(filename(w)))
            /\ InNextWorkList(filename(w))

\* The work list a run plans when it is given `store` and the files as
\* they are now.
PlanWith(store) ==
    LET map == Walk(fs)
    IN  Planner(map, Reconcile(store, map), fs)

\* C12: the store entry of every item that succeeded and was stamped is
\* the modification time the file at its original path has after the
\* external command and the restoring rename, also when the command
\* changed that time; a run that plans with this store over the files as
\* they are does not put the file in its work list.
C12_FreshFingerprint ==
    \A w \in Workers :
        Written(w) =>
            /\ PathKey(filename(w)) \in DOMAIN optimized_timestamps
            /\ optimized_timestamps[PathKey(filename(w))]
                   = get_modified_time_long_path(fs, OrigPath(filename(w)))
            /\ \A i \in 1..Len(PlanWith(optimized_timestamps).todo) :
                   PlanWith(optimized_timestamps).todo[i] # filename(w)
\* The command changed the modification time of a file that had been
\* renamed and was restored, and the new time is the one in the store.
C12_Witness ==
    \E w \in Workers :
        /\ Written(w) /\ wk[w].renamed /\ ~wk[w].restore_failed
        /\ fs[OrigPath(filename(w))].kind = "png"
        /\ fs[OrigPath(filename(w))].mtime # InitialFile.mtime
        /\ optimized_timestamps[PathKey(filename(w))] = fs[OrigPath(filename(w))].mtime

\* The normalised keys of the original paths the walk discovered.
DiscoveredKeys == {NFC(n) : n \in Discovered}

\* C13 (as claimed): once the run is over, every key of the store file is
\* the normalised key of an original path that the run discovered.
C13_PersistedKeys ==
    (ProcessExited /\ timestamp_file.kind = "json")
    => DOMAIN timestamp_file.data \subseteq DiscoveredKeys
\* C13 (amended): every key of the in-memory store, and of every store
\* file that the run has written, is the normalised key of an original
\* path that the run discovered, also when a restoring rename failed; a
\* store file that the run does not write keeps the keys it had.
C13_WrittenKeys ==
    /\ mainpc # "load" => DOMAIN optimized_timestamps \subseteq DiscoveredKeys
    /\ (timestamp_file # storeAtStart /\ timestamp_file.kind = "json")
       => DOMAIN timestamp_file.data \subseteq DiscoveredKeys
\* The restoring rename failed, the file is under its surrogate, and the
\* saved store holds the item under the normalised key of its original
\* path, which differs from the spelling of the name on disk.
C13_Witness ==
    /\ ProcessExited
    /\ timestamp_file.kind = "json"
    /\ \E w \in Workers :
         /\ wk[w].success /\ wk[w].restore_failed
         /\ fs[generate_temp_filename(filename(w))].kind = "png"
         /\ filename(w) # NFC(filename(w))
         /\ DOMAIN timestamp_file.data = {NFC(filename(w))}

\* C14: a write of the store file (the rewrite after pruning, the save at
\* the end of the run) either leaves the file as it was or replaces it by
\* a complete store: the file is never left truncated or partial.
C14_CrashSafeSave ==
    [][timestamp_file' # timestamp_file => timestamp_file'.kind = "json"]_vars

\* C15: the amount an item adds to the bytes-saved total is never
\* negative, so no step decreases total_savings_bytes: not for a file
\* that grew, not for one whose original size was read as 0.
C15_SavingsFloored ==
    [][counters'.total_savings_bytes >= counters.total_savings_bytes]_vars

\* The items whose outcome worker() took as a failure (the else branch of
\* line 440) and has recorded.
RecordedFailed == {w \in Workers : ~wk[w].success
                                   /\ wk[w].pc \in {"st_err", "ld_proc", "st_proc", "done"}}
RecordsOf(w) == {i \in 1..Len(errlines) : errlines[i].item = w}

\* The items for which optimize_png returned a failure and whose worker
\* has finished.
FailedItems == {w \in Workers : ~wk[w].success /\ wk[w].pc \in {"interrupted", "done"}}

\* C16: every item whose processing failed has, once its worker has
\* finished, exactly one failure record; a failure keeps no other item
\* from being dispatched, and the run can always take a step until the
\* main thread has saved and every worker has finished.
C16_FailureRecorded ==
    /\ \A w \in FailedItems : Cardinality(RecordsOf(w)) = 1
    /\ (~exit_requested /\ mainpc \in {"join", "joining", "save", "exit"})
       => Dispatched = 1..Len(files_to_optimize)
    /\ ~ProcessExited => ENABLED Next

\* C16 (runs without cancellation): every item that failed (rename
\* error, missing binary, non-zero exit) has exactly one failure record,
\* which carries the text optimize_png returned, and only failed items have
\* one; whatever failed, the dispatch loop hands out every item of the
\* work list, every item that succeeded has its store entry, and the run
\* is never blocked before the save: it can always take a step until the
\* main thread has saved and every worker has finished.
C16_FailuresIsolated ==
    /\ \A w \in RecordedFailed :
          /\ Cardinality(RecordsOf(w)) = 1
          /\ \A i \in RecordsOf(w) : errlines[i].output = wk[w].output /\ errlines[i].output # ""
    /\ \A i \in 1..Len(errlines) : errlines[i].item \in RecordedFailed
    /\ mainpc \in {"join", "joining", "save", "exit"}
       => Dispatched = 1..Len(files_to_optimize)
    /\ \A w \in Succeeded : PathKey(filename(w)) \in DOMAIN optimized_timestamps
    /\ ~ProcessExited => ENABLED NextIsolation
\* The rename of one item failed and the binary was missing for another;
\* both have their record, and the run went on to save the store.
C16_Witness ==
    /\ ProcessExited
    /\ Len(errlines) = 2
    /\ \E v, w \in RecordedFailed :
         /\ wk[v].output = "Error renaming file"
         /\ wk[w].output = "Error: optipng command not found."
    /\ timestamp_file.kind = "json"

\* C17: when the main thread performs the save at the end of the run,
\* every worker thread that was started has terminated.
C17_SaveAfterAllWorkers ==
    [][(mainpc = "save" /\ mainpc' = "exit") => AllTerminated]_vars

\* optimize_png has returned for an unsafe-named item whose rename to the
\* surrogate failed.
RenameFailedFor(w) == Returned(w) /\ has_unicode(filename(w)) /\ ~wk[w].renamed

\* C18: when the rename of an unsafe-named item to its surrogate fails,
\* optimize_png returns a failure whose text is the rename error, the
\* external command was never invoked for the item, and the file is at
\* its original path as it was, with nothing at the surrogate path.
C18_RenameFailure ==
    \A w \in Workers :
        RenameFailedFor(w) =>
            /\ ~wk[w].success /\ wk[w].savings = 0
            /\ wk[w].output = "Error renaming file"
            /\ ~wk[w].invoked
            /\ fs[OrigPath(filename(w))] = InitialFile
            /\ fs[generate_temp_filename(filename(w))].kind = "none"
\* The rename failed, and the worker has recorded the failure.
C18_Witness ==
    \E w \in Workers :
        /\ RenameFailedFor(w)
        /\ wk[w].pc = "done"
        /\ errlines = <<[item |-> w, output |-> "Error renaming file"]>>

\* optimize_png has returned for an item whose external command exited 0
\* and whose restoring rename failed.
RestoreFailedFor(w) == Returned(w) /\ wk[w].restore_failed /\ wk[w].returncode = 0

\* C19: when the external command exits 0 and the restoring rename fails,
\* optimize_png still returns success, with the savings computed from the
\* size of the file at the surrogate path, and has written a warning that
\* names the surrogate path; the worker that aggregates the outcome counts
\* the item as a success with these savings.
C19_RestoreFailure ==
    \A w \in Workers :
        RestoreFailedFor(w) =>
            LET temp == generate_temp_filename(filename(w))
            IN  /\ wk[w].success
                /\ fs[temp].kind = "png"
                /\ wk[w].savings = wk[w].original_size - get_file_size(fs, temp)
                /\ wk[w].warning = {temp}
                /\ wk[w].pc = "done" =>
                      /\ counters.successful_optimizations = 1
                      /\ counters.total_savings_bytes = wk[w].savings
                      /\ counters.error_count = 0 /\ errlines = <<>>
\* The file of size 2 was left under its surrogate with size 1, and the
\* run counted one success and one byte saved.
C19_Witness ==
    \E w \in Workers :
        /\ RestoreFailedFor(w)
        /\ wk[w].pc = "done"
        /\ fs[OrigPath(filename(w))].kind = "none"
        /\ fs[generate_temp_filename(filename(w))].size = 1
        /\ counters.total_savings_bytes = 1

\* The state of a work item: Pending until a thread is started for it,
\* Running while its worker is between its start and its last statement,
\* then the outcome with which the worker finished.
ItemState(r) ==
    CASE r.pc = "idle" -> "Pending"
      [] r.pc \in {"skipped", "interrupted"} -> "SkippedOnCancel"
      [] r.pc = "done" -> IF r.success THEN "Succeeded" ELSE "Failed"
      [] OTHER -> "Running"
TerminalStates == {"Succeeded", "Failed", "SkippedOnCancel"}
ItemStep(w) ==
    LET old == ItemState(wk[w])
        new == ItemState(wk'[w])
    IN  /\ old # new => \/ old = "Pending" /\ new = "Running"
                        \/ old = "Running" /\ new \in TerminalStates
        /\ old \in TerminalStates => wk'[w] = wk[w]
        /\ (wk'[w].pc = "start" /\ wk'[w] # wk[w]) => wk[w].pc = "idle"

\* C20: a thread is started for a work item only while the item is
\* Pending, so at most once; an item changes state only from Pending to
\* Running and from Running to Succeeded, Failed or SkippedOnCancel; an item
\* in a terminal state never changes again; only items of the work list
\* get a thread, and when the dispatch loop has ended without
\* cancellation every item of the work list has got one.
C20_ItemLifecycle ==
    /\ [][\A w \in Workers : ItemStep(w)]_vars
    /\ [](Dispatched \subseteq 1..Len(files_to_optimize))
    /\ []((~exit_requested /\ mainpc \in {"join", "joining", "save", "exit"})
           => Dispatched = 1..Len(files_to_optimize))
\* A cancelled run in which one item succeeded, and another was handed to
\* a thread that found the flag set.
C20_Witness ==
    /\ ProcessExited
    /\ \E v, w \in Workers :
         /\ ItemState(wk[v]) = "Succeeded"
         /\ ItemState(wk[w]) = "SkippedOnCancel"

\* The workers whose file is under its surrogate name.
Holding == {w \in Workers : wk[w].renamed /\ wk[w].pc \in {"popen", "running", "restore"}}

\* C21: two distinct unsafe-named items of the work list have different
\* surrogate paths, and at no time do two workers hold the same surrogate
\* path; the file a worker holds is at its surrogate path.
C21_SurrogatesDistinct ==
    /\ \A i, j \in 1..Len(files_to_optimize) :
          (i # j /\ has_unicode(files_to_optimize[i]) /\ has_unicode(files_to_optimize[j]))
          => generate_temp_filename(files_to_optimize[i])
                # generate_temp_filename(files_to_optimize[j])
    /\ \A v, w \in Holding : v # w => Target(v) # Target(w)
    /\ \A w \in Holding : fs[Target(w)].kind = "png"
\* Two workers hold a surrogate each while both external commands run.
C21_Witness ==
    /\ Cardinality(Holding) = 2
    /\ \A w \in Holding : wk[w].pc = "running"

\* C22: when the store file is missing or its content is not a JSON
\* object, loading does not abort the run and returns an empty store.
C22_TolerantLoad ==
    (mainpc # "load" /\ storeAtStart.kind # "json")
    => /\ mainpc # "crash"
       /\ mainpc = "plan" => (optimized_timestamps = EmptyDict /\ timestamp_file = storeAtStart)

\* The PNG files that are on disk under the root.
PngOnDisk == {n \in Names : fs[OrigPath(n)].kind # "none"}

\* C23: once the work list is planned, every PNG file on disk is counted
\* as skipped or is in the work list exactly once: the two numbers add up
\* to the number of PNG files on disk, and every file that is not skipped
\* is in the list.
C23_EveryFilePlanned ==
    mainpc \notin {"load", "plan", "crash"} =>
        /\ skipped_count + Len(files_to_optimize) = Cardinality(PngOnDisk)
        /\ \A n \in PngOnDisk : InWorkList(n) \/ ~NeedsWork(n)

\* C24 (as claimed): under fair scheduling every run eventually reaches
\* the save at the end of the run.
C24_ReachesSave == <>(mainpc = "save")
\* C24 (amended): under fair scheduling, for every pool size, with or
\* without SIGINT, the process eventually ends with every started worker
\* terminated; every item that got a thread reaches a terminal state, and
\* in a run that is not cancelled every item of the work list gets one; a
\* run whose work list is not empty reaches the save at the end of the run
\* (a run whose work list is empty returns without saving).
C24_Termination ==
    /\ <>ProcessExited
    /\ \A w \in Workers : (wk[w].pc # "idle") ~> (wk[w].pc \in Terminated)
    /\ <>(ProcessExited /\ (~exit_requested
                             => \A w \in 1..Len(files_to_optimize) : wk[w].pc \in Terminated))
    /\ (mainpc = "loop") ~> (mainpc = "save")
\* With a pool of one, the second item had to wait for the slot of the
\* first; both were processed and the run has ended after its save.
C24_Witness ==
    /\ ProcessExited
    /\ max_worker_threads = 1
    /\ Len(files_to_optimize) = 2
    /\ \A w \in 1..2 : wk[w].pc = "done"
    /\ timestamp_file # storeAtStart

\* C25: a worker thread whose first statement runs while the flag is set
\* ends at once with its item skipped: that step changes no file, no
\* counter, no store entry and no failure record; the thread has renamed
\* nothing and invoked no command, its file is at its original path as the
\* run found it, and its store entry is the one the run loaded.
C25_LateWorkerInert ==
    /\ [][\A w \in Workers :
            (wk[w].pc = "start" /\ exit_requested /\ wk'[w] # wk[w])
            => /\ wk'[w] = [IdleWorker EXCEPT !.pc = "skipped"]
               /\ fs' = fs /\ counters' = counters /\ errlines' = errlines
               /\ optimized_timestamps' = optimized_timestamps]_vars
    /\ [](\A w \in Workers :
            wk[w].pc = "skipped" =>
               /\ ItemState(wk[w]) = "SkippedOnCancel"
               /\ ~wk[w].renamed /\ ~wk[w].invoked
               /\ fs[OrigPath(filename(w))] = InitialFile
               /\ fs[generate_temp_filename(filename(w))].kind = "none"
               /\ SameEntry(optimized_timestamps, ReconciledAtStart, PathKey(filename(w))))
\* The thread of an unsafe-named item was started and found the flag set,
\* while another item had been processed to its end.
C25_Witness ==
    /\ ProcessExited
    /\ \E v, w \in Workers :
         /\ wk[w].pc = "skipped" /\ has_unicode(filename(w))
         /\ wk[v].pc = "done"

\* The items that were under their surrogate name, with the external
\* command running, when the flag was set.
RenamedAtSigint == {w \in Workers : pcAtSigint[w] = "running" /\ wk[w].renamed}

\* C26: where no rename fails, an item that was under its surrogate name
\* with its command running when the flag was set is back at its original
\* path, and gone from the surrogate path, once optimize_png has returned;
\* and once every worker of a run has terminated, no file is at any
\* surrogate path and every file the run found is at its original path.
C26_CancelRestores ==
    /\ \A w \in RenamedAtSigint :
          Returned(w) => /\ fs[OrigPath(filename(w))].kind = "png"
                         /\ fs[generate_temp_filename(filename(w))].kind = "none"
                         /\ ~wk[w].restore_failed
    /\ (mainpc \in {"join", "joining", "save", "exit"} /\ AllTerminated)
       => \A n \in Names : /\ fs[generate_temp_filename(n)].kind = "none"
                            /\ n \in UnsafeNames => fs[OrigPath(n)].kind = "png"
\* The flag was set while the command of a renamed item was running; the
\* worker ended in the interrupted branch and the run has ended.
C26_Witness ==
    /\ ProcessExited
    /\ exit_requested
    /\ \E w \in RenamedAtSigint : wk[w].pc = "interrupted"

====
